---- MODULE Spec2Model ----
(***************************************************************************)
(* Model of the asynchronous ad-suggestions job subsystem:                 *)
(*   - the search-term classification engine and the negative-keyword      *)
(*     normalizer of netlify/functions/ad-suggestions.js,                  *)
(*   - the job store (saveJob / loadJob), the runner (processAnalysis)     *)
(*     and the submit / poll handler of the same file,                     *)
(*   - the client poller AdSuggestionsService and its caller               *)
(*     MarketingComponent.                                                 *)
(* Money is kept in cents (the fetchers round spend to cents).             *)
(***************************************************************************)
EXTENDS Integers, Sequences, FiniteSets, TLC

(***************************************************************************)
(* Bounds of the model.                                                    *)
(***************************************************************************)
\* longest freely ordered prefix of the search-term list
MaxHead == 2
\* longest run of distinct generated records appended to the prefix
MaxBulk == 16
\* longest run of distinct generated opportunity records
MaxGaps == 21

(***************************************************************************)
(* Strings: toLowerCase, trim, includes.                                   *)
(***************************************************************************)
LowerOfChar(c) ==
  CASE c = "A" -> "a" [] c = "B" -> "b" [] c = "C" -> "c" [] c = "D" -> "d"
    [] c = "E" -> "e" [] c = "F" -> "f" [] c = "G" -> "g" [] c = "H" -> "h"
    [] c = "I" -> "i" [] c = "J" -> "j" [] c = "K" -> "k" [] c = "L" -> "l"
    [] c = "M" -> "m" [] c = "N" -> "n" [] c = "O" -> "o" [] c = "P" -> "p"
    [] c = "Q" -> "q" [] c = "R" -> "r" [] c = "S" -> "s" [] c = "T" -> "t"
    [] c = "U" -> "u" [] c = "V" -> "v" [] c = "W" -> "w" [] c = "X" -> "x"
    [] c = "Y" -> "y" [] c = "Z" -> "z" [] OTHER -> c

RECURSIVE toLowerCase(_)
toLowerCase(s) ==
  IF Len(s) = 0 THEN ""
  ELSE LowerOfChar(SubSeq(s, 1, 1)) \o toLowerCase(SubSeq(s, 2, Len(s)))

RECURSIVE trimStart(_)
trimStart(s) ==
  IF Len(s) > 0 /\ SubSeq(s, 1, 1) = " " THEN trimStart(SubSeq(s, 2, Len(s)))
  ELSE s

RECURSIVE trimEnd(_)
trimEnd(s) ==
  IF Len(s) > 0 /\ SubSeq(s, Len(s), Len(s)) = " "
  THEN trimEnd(SubSeq(s, 1, Len(s) - 1))
  ELSE s

trim(s) == trimEnd(trimStart(s))

\* String.prototype.includes: the empty string is contained in every string
includes(s, w) ==
  \E i \in 1..(Len(s) - Len(w) + 1) : SubSeq(s, i, i + Len(w) - 1) = w

(***************************************************************************)
(* Vocabularies.                                                           *)
(***************************************************************************)
WRONG_INTENT_WORDS ==
  << "lawyer", "lawyers", "attorney", "attorneys", "near me", "legal advice",
     "free consultation", "pro bono", "lawsuit", "sue", "court",
     "template", "templates", "free", "sample", "example", "diy template",
     "word doc", "download" >>

HIGH_INTENT_WORDS ==
  << "respond", "response", "letter", "dispute", "fight", "violation",
     "notice", "write", "help", "fine" >>

\* .slice(0, 20) of the opportunities, .slice(0, 15) of the waste terms
OpportunityLimit == 20
WasteLimit == 15
\* spend > 2 (dollars), in cents
WasteSpendFloor == 200

(***************************************************************************)
(* Values returned by the fetchers: an array of rows or an error marker    *)
(* { error, data: null }.                                                  *)
(***************************************************************************)
Rows(rs) == [kind |-> "array", rows |-> rs]
ErrorMarker == [kind |-> "error", rows |-> << >>]
\* undefined or null, and an object that is neither an array nor a marker
Absent == [kind |-> "absent", rows |-> << >>]
NotArray == [kind |-> "object", rows |-> << >>]

\* d && Array.isArray(d) && !d.error
isUsableArray(d) == d.kind = "array"

\* the test of !searchTermData alone
noSearchTermDataFalsyOnly(d) == d.kind = "absent"

\* !searchTermData || searchTermData.error || !Array.isArray(searchTermData)
noSearchTermData(d) ==
  d.kind = "absent" \/ d.kind = "error" \/ d.kind # "array"

\* searchTermData.filter(...) of a value that has no filter method
filterThrows(d) == ~noSearchTermData(d) /\ d.kind # "array"

(***************************************************************************)
(* Sequence helpers: filter, slice, stable sort (Array.prototype.sort is   *)
(* stable), sum.                                                           *)
(***************************************************************************)
slice(s, n) == SubSeq(s, 1, IF Len(s) < n THEN Len(s) ELSE n)

RECURSIVE InsertDesc(_, _, _)
InsertDesc(sorted, r, f) ==
  IF Len(sorted) = 0 THEN << r >>
  ELSE IF Head(sorted)[f] >= r[f]
       THEN << Head(sorted) >> \o InsertDesc(Tail(sorted), r, f)
       ELSE << r >> \o sorted

RECURSIVE SortDescFrom(_, _, _)
SortDescFrom(acc, s, f) ==
  IF Len(s) = 0 THEN acc
  ELSE SortDescFrom(InsertDesc(acc, Head(s), f), Tail(s), f)

\* the rows left in input order
sortDescOmitted(s, f) == s

\* .sort((a, b) => b[f] - a[f])
sortDesc(s, f) == SortDescFrom(<< >>, s, f)

RECURSIVE SumSpend(_)
SumSpend(s) == IF Len(s) = 0 THEN 0 ELSE Head(s).spend + SumSpend(Tail(s))

\* Math.round((spend / clicks) * 100) / 100, in cents
RoundedCpc(spend, clicks) ==
  IF clicks > 0 THEN (2 * spend + clicks) \div (2 * clicks) ELSE 0

(***************************************************************************)
(* Negative-keyword normalizer.                                            *)
(***************************************************************************)
RECURSIVE NegativesOfSource(_, _)
NegativesOfSource(rs, scope) ==
  IF Len(rs) = 0 THEN << >>
  ELSE (IF Head(rs).keyword # ""
        THEN << [keyword |-> Head(rs).keyword,
                 matchType |-> Head(rs).matchType,
                 scope |-> scope] >>
        ELSE << >>) \o NegativesOfSource(Tail(rs), scope)

\* the keywords added to the set as they are given
KeywordsAsGiven(negs) == { negs[i].keyword : i \in 1..Len(negs) }

NormalizedKeywords(negs) ==
  { trim(toLowerCase(negs[i].keyword)) : i \in 1..Len(negs) }

combineNegativeKeywords(campaignNegs, sharedSetNegs) ==
  LET camp == IF isUsableArray(campaignNegs)
              THEN NegativesOfSource(campaignNegs.rows, "campaign") ELSE << >>
      acct == IF isUsableArray(sharedSetNegs)
              THEN NegativesOfSource(sharedSetNegs.rows, "account") ELSE << >>
  IN [existingNegatives |-> camp \o acct,
      negativeKeywordsSet |-> NormalizedKeywords(camp \o acct)]

(***************************************************************************)
(* Classification engine.                                                  *)
(***************************************************************************)
existingKeywordsOf(keywordData) ==
  IF isUsableArray(keywordData)
  THEN { trim(toLowerCase(keywordData.rows[i].keyword)) :
           i \in { j \in 1..Len(keywordData.rows) :
                     keywordData.rows[j].keyword # "" } }
  ELSE {}

hasWrongIntent(term) ==
  LET lowerTerm == toLowerCase(term)
  IN \E i \in 1..Len(WRONG_INTENT_WORDS) :
       includes(lowerTerm, toLowerCase(WRONG_INTENT_WORDS[i]))

scoreIntent(term) ==
  LET lowerTerm == toLowerCase(term)
      matchCount == Cardinality({ i \in 1..Len(HIGH_INTENT_WORDS) :
                      includes(lowerTerm, toLowerCase(HIGH_INTENT_WORDS[i])) })
  IN IF matchCount >= 2 THEN "high" ELSE "medium"

\* the direct match alone, without the containment loop
isAlreadyNegatedDirectOnly(term, negativeKeywordsSet) ==
  trim(toLowerCase(term)) \in negativeKeywordsSet

isAlreadyNegated(term, negativeKeywordsSet) ==
  LET lowerTerm == trim(toLowerCase(term))
  IN \/ lowerTerm \in negativeKeywordsSet
     \/ \E negative \in negativeKeywordsSet : includes(lowerTerm, negative)

\* the filter without the test against the existing keywords
isOpportunityAmongKeywords(st, existingKeywords) ==
  st.clicks >= 1 /\ ~hasWrongIntent(st.searchTerm)

isOpportunity(st, existingKeywords) ==
  /\ st.clicks >= 1
  /\ ~hasWrongIntent(st.searchTerm)
  /\ trim(toLowerCase(st.searchTerm)) \notin existingKeywords

isWasteCandidate(st) ==
  /\ st.clicks >= 1
  /\ st.conversions = 0
  /\ st.spend > WasteSpendFloor
  /\ hasWrongIntent(st.searchTerm)

toOpportunity(st) ==
  [searchTerm |-> st.searchTerm, clicks |-> st.clicks,
   impressions |-> st.impressions, spend |-> st.spend,
   conversions |-> st.conversions,
   actualCpc |-> RoundedCpc(st.spend, st.clicks),
   intentScore |-> scoreIntent(st.searchTerm)]

toWaste(st, negativeKeywordsSet) ==
  [searchTerm |-> st.searchTerm, clicks |-> st.clicks, spend |-> st.spend,
   conversions |-> st.conversions,
   actualCpc |-> RoundedCpc(st.spend, st.clicks),
   alreadyNegative |-> isAlreadyNegated(st.searchTerm, negativeKeywordsSet)]

toCovered(wt) ==
  [keyword |-> wt.searchTerm, wastedSpend |-> wt.spend,
   note |-> "already negated"]

RECURSIVE OpportunityRows(_, _)
OpportunityRows(rs, existingKeywords) ==
  IF Len(rs) = 0 THEN << >>
  ELSE (IF isOpportunity(Head(rs), existingKeywords)
        THEN << toOpportunity(Head(rs)) >> ELSE << >>)
       \o OpportunityRows(Tail(rs), existingKeywords)

RECURSIVE WasteRows(_, _)
WasteRows(rs, negativeKeywordsSet) ==
  IF Len(rs) = 0 THEN << >>
  ELSE (IF isWasteCandidate(Head(rs))
        THEN << toWaste(Head(rs), negativeKeywordsSet) >> ELSE << >>)
       \o WasteRows(Tail(rs), negativeKeywordsSet)

RECURSIVE NewWaste(_)
NewWaste(all) ==
  IF Len(all) = 0 THEN << >>
  ELSE (IF ~Head(all).alreadyNegative THEN << Head(all) >> ELSE << >>)
       \o NewWaste(Tail(all))

RECURSIVE CoveredWaste(_)
CoveredWaste(all) ==
  IF Len(all) = 0 THEN << >>
  ELSE (IF Head(all).alreadyNegative THEN << toCovered(Head(all)) >>
        ELSE << >>) \o CoveredWaste(Tail(all))

\* the limit applied without the split on alreadyNegative
wasteTermsOfUnsplit(allWasteTerms) == slice(allWasteTerms, WasteLimit)

wasteTermsOf(allWasteTerms) == slice(NewWaste(allWasteTerms), WasteLimit)

\* the covered terms cut at the limit of the waste terms
alreadyCoveredOfTruncated(allWasteTerms) ==
  slice(CoveredWaste(allWasteTerms), WasteLimit)

alreadyCoveredOf(allWasteTerms) == CoveredWaste(allWasteTerms)

EmptyGaps ==
  [opportunities |-> << >>, wasteTerms |-> << >>, alreadyCovered |-> << >>,
   analysis |-> [totalSearchTerms |-> 0, confirmedGaps |-> 0,
                 confirmedWaste |-> 0, totalWastedOnWrongIntent |-> 0,
                 alreadyNegated |-> 0]]

RECURSIVE SumWastedSpend(_)
SumWastedSpend(s) ==
  IF Len(s) = 0 THEN 0 ELSE Head(s).wastedSpend + SumWastedSpend(Tail(s))

\* the counters with the spend of the covered terms added to the total
analysisCountingCovered(n, opportunities, wasteTerms, alreadyCovered) ==
  [totalSearchTerms |-> n,
   confirmedGaps |-> Len(opportunities),
   confirmedWaste |-> Len(wasteTerms),
   totalWastedOnWrongIntent |->
     SumSpend(wasteTerms) + SumWastedSpend(alreadyCovered),
   alreadyNegated |-> Len(alreadyCovered)]

analysisOf(n, opportunities, wasteTerms, alreadyCovered) ==
  [totalSearchTerms |-> n,
   confirmedGaps |-> Len(opportunities),
   confirmedWaste |-> Len(wasteTerms),
   totalWastedOnWrongIntent |-> SumSpend(wasteTerms),
   alreadyNegated |-> Len(alreadyCovered)]

analyzeSearchTermsForGaps(searchTerms, keywords, negativeKeywordsSet) ==
  IF noSearchTermData(searchTerms) THEN EmptyGaps
  ELSE
    LET existingKeywords == existingKeywordsOf(keywords)
        opportunities ==
          slice(sortDesc(OpportunityRows(searchTerms.rows, existingKeywords),
                         "clicks"), OpportunityLimit)
        allWasteTerms ==
          sortDesc(WasteRows(searchTerms.rows, negativeKeywordsSet), "spend")
        wasteTerms == wasteTermsOf(allWasteTerms)
        alreadyCovered == alreadyCoveredOf(allWasteTerms)
    IN [opportunities |-> opportunities,
        wasteTerms |-> wasteTerms,
        alreadyCovered |-> alreadyCovered,
        analysis |-> analysisOf(Len(searchTerms.rows), opportunities,
                                wasteTerms, alreadyCovered)]

(***************************************************************************)
(* State.                                                                  *)
(***************************************************************************)
VARIABLES
  \* inputs and results of one classification (processAnalysis locals)
  searchTermData, keywordData, campaignNegatives, sharedSetNegatives,
  negativeKeywords, searchTermsGaps, gapsPc

gapsVars == << searchTermData, keywordData, campaignNegatives,
               sharedSetNegatives, negativeKeywords, searchTermsGaps, gapsPc >>

VARIABLES
  \* ANTHROPIC_API_KEY is set (read once when the module is loaded)
  anthropicConfigured,
  \* SUPABASE_URL and SUPABASE_SERVICE_ROLE_KEY are set in the environment
  supabaseConfigured,
  \* the Google Ads variables of the environment are all set (the customer
  \* id may also come with the request): hasGoogleAdsCredentials
  hasGoogleAdsCredentials,
  \* the in-process Map jobStore and the durable table ad_suggestion_jobs
  jobStore, durable,
  \* the last saveJob call that wrote each id into jobStore
  lastSaveCall,
  \* one record per POST: the handler / processAnalysis position and locals
  run

envVars == << anthropicConfigured, supabaseConfigured, hasGoogleAdsCredentials >>

serverVars == << envVars, jobStore, durable, lastSaveCall, run >>

VARIABLES
  \* AdSuggestionsService.pollingSubscription: the call whose interval
  \* subscription the field references, 0 for null
  pollingSubscription,
  \* one record per getSuggestions call: its POST, its result$ Subject, the
  \* interval subscription and the attempts counter of its startPolling
  session

clientVars == << pollingSubscription, session >>

VARIABLES
  \* the GET request being handled: its jobId, the process that handles it,
  \* the position of its loadJob call and the response
  get

pollVars == << get >>

vars == << gapsVars, serverVars, clientVars, pollVars >>

(***************************************************************************)
(* Job store: records, saveJob, loadJob.                                   *)
(***************************************************************************)
\* submissions (POST requests) and the ids generateJobId can return
MaxSubmissions == 2
MaxJobIds == 2

Submissions == 1..MaxSubmissions

\* generateJobId: `job_${Date.now()}_${Math.random()...}`, a drawn value
JobIds == 1..MaxJobIds

NoJob == [status |-> "none", result |-> "none", error |-> "none"]

ProcessingData == [status |-> "processing", result |-> "none", error |-> "none"]

ErrorData(msg) == [status |-> "error", result |-> "none", error |-> msg]

CompleteData(res) == [status |-> "complete", result |-> res, error |-> "none"]

\* the map left as it was
jobStoreSetOmitted(store, jobId, data) == store

\* jobStore.set(jobId, data)
jobStoreSet(store, jobId, data) == [store EXCEPT ![jobId] = data]

\* the row of the upsert: status, data.result || null, data.error || null
upsertRow(table, jobId, data) == [table EXCEPT ![jobId] = data]

\* getSupabaseClient(): null when the environment lacks url or key, else
\* createClient(url, key), which is outside this repository: it returns the
\* client or raises
ClientOutcomes == { "none", "throws", "client" }

getSupabaseClient ==
  IF supabaseConfigured THEN { "client", "throws" } ELSE { "none" }

\* the awaited upsert: a result without error, a result with error, a throw
UpsertOutcomes == { "ok", "error", "throws" }

\* a lookup that never finds the id
jobStoreHasNever(store, jobId) == FALSE

\* jobStore.has(jobId)
jobStoreHas(store, jobId) == store[jobId] # NoJob

\* what loadJob finds: the map first, the durable table when the id is absent
loadJob(jobId) ==
  IF jobStoreHas(jobStore, jobId) THEN jobStore[jobId]
  ELSE IF durable[jobId] # NoJob THEN durable[jobId]
  ELSE NoJob

(***************************************************************************)
(* saveJob(jobId, data), called at five places: by the POST handler        *)
(* ("init"), by processAnalysis after a parse failure ("parseError"), on   *)
(* success ("complete"), in its outer catch ("catch"), and by the          *)
(* handler's detached .catch ("detached").                                 *)
(* The part before the first await runs with the caller's step: the map    *)
(* write, then getSupabaseClient().                                        *)
(***************************************************************************)
IdleRun ==
  [pc |-> "idle", jobId |-> 0, site |-> "none", data |-> NoJob,
   tier |-> "none", response |-> "none", inputs |-> "none",
   llmCalls |-> 0, writes |-> 0]

\* the record of a caller whose saveJob call is over: its arguments are gone
Returned(r) ==
  [r EXCEPT !.site = "none", !.data = NoJob, !.tier = "none",
            !.inputs = "none"]

saveJobPc(c) ==
  CASE c = "none"   -> "resolved"
    [] c = "throws" -> "rejected"
    [] c = "client" -> "upsert"

saveJobTier(c) ==
  CASE c = "none"   -> "noClient"
    [] c = "throws" -> "clientThrew"
    [] c = "client" -> "pending"

\* the caller's record once saveJob(r.jobId, data) has reached its first
\* await, returned or thrown
saveJobCalled(r, site, data, c) ==
  [r EXCEPT !.pc = saveJobPc(c), !.site = site, !.data = data,
            !.tier = saveJobTier(c),
            !.writes = IF site = "init" THEN 0 ELSE @ + 1]

saveJob(s, r, site, data, c) ==
  /\ c \in getSupabaseClient
  /\ jobStore' = jobStoreSet(jobStore, r.jobId, data)
  /\ lastSaveCall' = [lastSaveCall EXCEPT ![r.jobId] = s]
  /\ run' = [run EXCEPT ![s] = saveJobCalled(r, site, data, c)]

\* the upsert returns to saveJob, which logs, swallows and resolves
UpsertReturns(s, o) ==
  /\ run[s].pc = "upsert"
  /\ durable' = IF o = "ok" THEN upsertRow(durable, run[s].jobId, run[s].data)
                ELSE durable
  /\ run' = [run EXCEPT ![s].pc = "resolved",
                        ![s].tier = CASE o = "ok" -> "ok"
                                      [] o = "error" -> "upsertError"
                                      [] o = "throws" -> "upsertThrew"]
  /\ UNCHANGED << envVars, jobStore, lastSaveCall >>
  /\ UNCHANGED << gapsVars, clientVars, pollVars >>

(***************************************************************************)
(* POST handler.                                                           *)
(***************************************************************************)
\* POST requests are numbered in the order they arrive
NextArrival(s) ==
  /\ run[s].pc = "idle"
  /\ \A t \in Submissions : t < s => run[t].pc # "idle"

\* ids are numbered in the order generateJobId first returns them: the draw
\* is an id already drawn or the next one never drawn
DrawnIds == { run[t].jobId : t \in Submissions } \ { 0 }

generateJobId == { id \in JobIds : id <= Cardinality(DrawnIds) + 1 }

\* the test left out
apiKeyCheckOmitted == FALSE

\* if (!ANTHROPIC_API_KEY), the one configuration test of the POST branch
apiKeyMissing == ~anthropicConfigured

\* POST without ANTHROPIC_API_KEY, or without startDate / endDate
SubmitRefused(s, bodyValid) ==
  /\ NextArrival(s)
  /\ apiKeyMissing \/ ~bodyValid
  /\ run' = [run EXCEPT ![s].pc = "done",
               ![s].response = IF apiKeyMissing THEN "notConfigured"
                               ELSE "badRequest"]
  /\ UNCHANGED << envVars, jobStore, durable, lastSaveCall >>
  /\ UNCHANGED << gapsVars, clientVars, pollVars >>

\* POST: generateJobId(), then saveJob(jobId, { status: 'processing' })
Submit(s, id, c) ==
  /\ NextArrival(s)
  /\ ~apiKeyMissing
  /\ id \in generateJobId
  /\ saveJob(s, [run[s] EXCEPT !.jobId = id], "init", ProcessingData, c)
  /\ UNCHANGED << envVars, durable >>
  /\ UNCHANGED << gapsVars, clientVars, pollVars >>

(***************************************************************************)
(* processAnalysis.                                                        *)
(***************************************************************************)
\* getAccessToken and the Promise.all of the fetches: the fetchers return
\* rows ("all") or some of them error markers ("unavailable"); without the
\* Google Ads credentials accessToken stays null and every Google Ads input
\* is the marker { error: 'Google Ads not configured' }
FetchOutcomes == { "all", "unavailable" }

fetchOutcomes ==
  IF hasGoogleAdsCredentials THEN FetchOutcomes ELSE { "unavailable" }

SampleSearchTerms ==
  Rows(<< [searchTerm |-> "hoa attorney help", clicks |-> 3,
           impressions |-> 40, spend |-> 500, conversions |-> 0],
          [searchTerm |-> "diy hoa response letter", clicks |-> 5,
           impressions |-> 60, spend |-> 400, conversions |-> 1] >>)

searchTermsAnalysisOf(inputs) ==
  analyzeSearchTermsForGaps(
    IF inputs = "all" THEN SampleSearchTerms ELSE ErrorMarker,
    ErrorMarker, {}).analysis

\* callClaudeAPI and JSON.parse of its text: the call throws, the text does
\* not parse, the text parses to an object
LlmOutcomes == { "throws", "unparseable", "json" }

ParseErrorMessage == "Failed to parse AI response"
\* await response.text() of a response that is not ok
RawErrorBody == "<response body>"

\* `Claude API error: ${response.status} - ${error}`
LlmErrorMessage == "Claude API error: 500 - " \o RawErrorBody
ClientErrorMessage == "Invalid URL"

\* the fetches have all settled; the prompt is built and callClaudeAPI called
FetchesReturn(s, f) ==
  /\ run[s].pc = "fetch"
  /\ f \in fetchOutcomes
  /\ run' = [run EXCEPT ![s].pc = "llm", ![s].inputs = f,
                        ![s].llmCalls = @ + 1]
  /\ UNCHANGED << envVars, jobStore, durable, lastSaveCall >>
  /\ UNCHANGED << gapsVars, clientVars, pollVars >>

\* fetchSupabaseData calls getSupabaseClient() before its try: when the
\* client cannot be constructed its promise rejects, Promise.all rejects and
\* the outer catch calls saveJob(jobId, { status: 'error', ... })
FetchRejects(s, c) ==
  /\ run[s].pc = "fetch"
  /\ "throws" \in getSupabaseClient
  /\ saveJob(s, run[s], "catch", ErrorData(ClientErrorMessage), c)
  /\ UNCHANGED << envVars, durable >>
  /\ UNCHANGED << gapsVars, clientVars, pollVars >>

\* callClaudeAPI has settled: parse, then one saveJob
LlmReturns(s, o, c) ==
  /\ run[s].pc = "llm"
  /\ CASE o = "json" ->
            saveJob(s, Returned(run[s]), "complete",
                    CompleteData(searchTermsAnalysisOf(run[s].inputs)), c)
       [] o = "unparseable" ->
            saveJob(s, Returned(run[s]), "parseError",
                    ErrorData(ParseErrorMessage), c)
       [] o = "throws" ->
            saveJob(s, Returned(run[s]), "catch",
                    ErrorData(LlmErrorMessage), c)
  /\ UNCHANGED << envVars, durable >>
  /\ UNCHANGED << gapsVars, clientVars, pollVars >>

(***************************************************************************)
(* What follows each saveJob call.                                         *)
(***************************************************************************)
\* the initial saveJob resolved: processAnalysis is started, not awaited,
\* and 202 { status: 'processing', jobId } is returned
RunnerStarted(s) ==
  /\ run[s].pc = "resolved"
  /\ run[s].site = "init"
  /\ run' = [run EXCEPT ![s] = [Returned(@) EXCEPT !.pc = "fetch",
                                                 !.response = "processing"]]
  /\ UNCHANGED << envVars, jobStore, durable, lastSaveCall >>
  /\ UNCHANGED << gapsVars, clientVars, pollVars >>

\* the initial saveJob rejected: the handler's catch answers 500
SubmitFailed(s) ==
  /\ run[s].pc = "rejected"
  /\ run[s].site = "init"
  /\ run' = [run EXCEPT ![s] = [Returned(@) EXCEPT !.pc = "done",
                                                 !.response = "serverError"]]
  /\ UNCHANGED << envVars, jobStore, durable, lastSaveCall >>
  /\ UNCHANGED << gapsVars, clientVars, pollVars >>

\* the LLM called once more
processAnalysisRetries == "llm"

\* processAnalysis after its awaited saveJob: `return` after a parse failure,
\* the end of the function otherwise
processAnalysisReturns == "done"

\* a saveJob of processAnalysis (or of the detached .catch) resolved
RunnerReturns(s) ==
  /\ run[s].pc = "resolved"
  /\ run[s].site \in { "parseError", "complete", "catch", "detached" }
  /\ run' = [run EXCEPT ![s] = [Returned(@) EXCEPT
                                  !.pc = processAnalysisReturns]]
  /\ UNCHANGED << envVars, jobStore, durable, lastSaveCall >>
  /\ UNCHANGED << gapsVars, clientVars, pollVars >>

\* a saveJob inside processAnalysis's try rejected: the outer catch calls
\* saveJob(jobId, { status: 'error', error: error.message })
RunnerCatches(s, c) ==
  /\ run[s].pc = "rejected"
  /\ run[s].site \in { "parseError", "complete" }
  /\ saveJob(s, run[s], "catch", ErrorData(ClientErrorMessage), c)
  /\ UNCHANGED << envVars, durable >>
  /\ UNCHANGED << gapsVars, clientVars, pollVars >>

\* the saveJob of the outer catch rejected: processAnalysis rejects and the
\* handler's .catch calls saveJob(jobId, { status: 'error', ... }), unawaited
DetachedCatch(s, c) ==
  /\ run[s].pc = "rejected"
  /\ run[s].site = "catch"
  /\ saveJob(s, run[s], "detached", ErrorData(ClientErrorMessage), c)
  /\ UNCHANGED << envVars, durable >>
  /\ UNCHANGED << gapsVars, clientVars, pollVars >>

\* the saveJob of the .catch rejected: nothing handles it
DetachedRejected(s) ==
  /\ run[s].pc = "rejected"
  /\ run[s].site = "detached"
  /\ run' = [run EXCEPT ![s] = [Returned(@) EXCEPT !.pc = "done"]]
  /\ UNCHANGED << envVars, jobStore, durable, lastSaveCall >>
  /\ UNCHANGED << gapsVars, clientVars, pollVars >>

(***************************************************************************)
(* GET handler: loadJob(jobId), then the response built from the job.      *)
(* The request is handled by the process that holds the map ("creator")    *)
(* or by another process of the same deployment, whose map is empty        *)
(* ("other").                                                              *)
(***************************************************************************)
Processes == { "creator", "other" }

InitializingMessage == "Job still initializing..."

NoResponse ==
  [status |-> "none", result |-> "none", error |-> "none", message |-> "none"]

GetIdle ==
  [pc |-> "idle", jobId |-> 0, process |-> "none", response |-> NoResponse]

\* the body of the 200 response for the job loadJob returned (NoJob: null)
responseOf(job) ==
  CASE job = NoJob ->
         [status |-> "processing", result |-> "none", error |-> "none",
          message |-> InitializingMessage]
    [] job.status = "complete" ->
         [status |-> "complete", result |-> job.result, error |-> "none",
          message |-> "none"]
    [] job.status = "error" ->
         [status |-> "error", result |-> "none", error |-> job.error,
          message |-> "none"]
    [] OTHER ->
         [status |-> "processing", result |-> "none", error |-> "none",
          message |-> "none"]

\* the map of the process that handles the request
jobStoreOf(process) ==
  IF process = "creator" THEN jobStore ELSE [id \in JobIds |-> NoJob]

\* the awaited select(...).single(): a row, an error result (also when no
\* row has the id), a throw
SelectOutcomes == { "data", "error", "throws" }

\* GET ?jobId=id: loadJob up to its first await
Get(id, process, c) ==
  /\ get.pc = "idle"
  /\ LET store == jobStoreOf(process)
         asked == [get EXCEPT !.jobId = id, !.process = process]
     IN IF jobStoreHas(store, id)
        THEN get' = [asked EXCEPT !.pc = "answered",
                                  !.response = responseOf(store[id])]
        ELSE /\ c \in getSupabaseClient
             /\ get' = CASE c = "none" ->
                              [asked EXCEPT !.pc = "answered",
                                            !.response = responseOf(NoJob)]
                         [] c = "throws" -> [asked EXCEPT !.pc = "rejected"]
                         [] c = "client" -> [asked EXCEPT !.pc = "select"]
  /\ UNCHANGED << gapsVars, serverVars, clientVars >>

\* the select returns to loadJob; the handler answers
SelectReturns(o) ==
  /\ get.pc = "select"
  /\ o = "data" => durable[get.jobId] # NoJob
  /\ get' = [get EXCEPT !.pc = "answered",
                        !.response = IF o = "data"
                                     THEN responseOf(durable[get.jobId])
                                     ELSE responseOf(NoJob)]
  /\ UNCHANGED << gapsVars, serverVars, clientVars >>

\* the response (or the rejection of the handler) has left the process
GetReturns ==
  /\ get.pc \in { "answered", "rejected" }
  /\ get' = GetIdle
  /\ UNCHANGED << gapsVars, serverVars, clientVars >>

NextGet ==
  \/ \E id \in JobIds, process \in Processes, c \in ClientOutcomes :
       Get(id, process, c)
  \/ \E o \in SelectOutcomes : SelectReturns(o)
  \/ GetReturns

InitServer ==
  /\ anthropicConfigured \in BOOLEAN
  /\ supabaseConfigured \in BOOLEAN
  /\ hasGoogleAdsCredentials \in BOOLEAN
  /\ jobStore = [id \in JobIds |-> NoJob]
  /\ durable = [id \in JobIds |-> NoJob]
  /\ lastSaveCall = [id \in JobIds |-> 0]
  /\ run = [s \in Submissions |-> IdleRun]
  /\ get = GetIdle

InitServerIdle ==
  /\ anthropicConfigured = TRUE
  /\ supabaseConfigured = TRUE
  /\ hasGoogleAdsCredentials = TRUE
  /\ jobStore = [id \in JobIds |-> NoJob]
  /\ durable = [id \in JobIds |-> NoJob]
  /\ lastSaveCall = [id \in JobIds |-> 0]
  /\ run = [s \in Submissions |-> IdleRun]
  /\ get = GetIdle

NextServer ==
  \E s \in Submissions :
    \/ \E b \in BOOLEAN : SubmitRefused(s, b)
    \/ \E id \in JobIds, c \in ClientOutcomes : Submit(s, id, c)
    \/ \E o \in UpsertOutcomes : UpsertReturns(s, o)
    \/ RunnerStarted(s)
    \/ SubmitFailed(s)
    \/ \E f \in FetchOutcomes : FetchesReturn(s, f)
    \/ \E c \in ClientOutcomes : FetchRejects(s, c)
    \/ \E o \in LlmOutcomes, c \in ClientOutcomes : LlmReturns(s, o, c)
    \/ RunnerReturns(s)
    \/ \E c \in ClientOutcomes : RunnerCatches(s, c)
    \/ \E c \in ClientOutcomes : DetachedCatch(s, c)
    \/ DetachedRejected(s)

(***************************************************************************)
(* Client poller: AdSuggestionsService (root singleton) and the            *)
(* subscription MarketingComponent.loadSuggestions holds on its result.    *)
(***************************************************************************)
\* getSuggestions calls made on the service
MaxCalls == 2
\* the attempt budget of startPolling (const maxAttempts), scaled down
maxAttempts == 2

Calls == 1..MaxCalls

NotCalled ==
  [post |-> "none", timer |-> "none", attempts |-> 0, inflight |-> 0,
   issued |-> 0, subject |-> "none", emitted |-> 0, lastValue |-> "none",
   subscribed |-> FALSE, answered |-> "none",
   superseded |-> FALSE, abandoned |-> FALSE]

\* cancelPolling(): unsubscribe whatever pollingSubscription references
cancelPolling(sess) ==
  IF pollingSubscription # 0
  THEN [sess EXCEPT ![pollingSubscription].timer = "unsubscribed"]
  ELSE sess

\* result$.next(v): a stopped Subject drops the value
next(r, v) ==
  IF r.subject = "open"
  THEN [r EXCEPT !.emitted = @ + 1, !.lastValue = v]
  ELSE r

\* result$.complete()
complete(r) == [r EXCEPT !.subject = "stopped"]

\* calls are numbered in the order they are made
NextCall(k) ==
  /\ session[k].post = "none"
  /\ \A j \in Calls : j < k => session[j].post # "none"

\* getSuggestions(request): cancelPolling(), a new Subject, the POST;
\* the caller subscribes to the returned observable
getSuggestions(k) ==
  /\ NextCall(k)
  /\ session' =
       [j \in Calls |->
          IF j = k
          THEN [NotCalled EXCEPT !.post = "inflight", !.subject = "open",
                                 !.subscribed = TRUE]
          ELSE IF j = pollingSubscription
               THEN [session[j] EXCEPT
                       !.timer = "unsubscribed",
                       !.superseded = (session[j].timer = "live")]
               ELSE session[j]]
  /\ pollingSubscription' = 0
  /\ UNCHANGED << gapsVars, serverVars, pollVars >>

\* what the POST answers: a job id, or an error without one (including an
\* HTTP failure turned into a value by catchError), or neither
PostResponses == { "jobId", "error", "neither" }

\* startPolling(jobId, result$): attempts = 0 and a new interval
\* subscription stored in pollingSubscription
startPolling(r) == [r EXCEPT !.timer = "live", !.attempts = 0]

PostResponds(k, resp) ==
  /\ session[k].post = "inflight"
  /\ IF resp = "jobId"
     THEN /\ session' = [session EXCEPT
                ![k] = startPolling([session[k] EXCEPT !.post = "done"])]
          /\ pollingSubscription' = k
     ELSE /\ session' = [session EXCEPT
                ![k] = complete(next([session[k] EXCEPT !.post = "done"],
                                     "error"))]
          /\ UNCHANGED pollingSubscription
  /\ UNCHANGED << gapsVars, serverVars, pollVars >>

\* one firing of interval(2000) for call k within the budget: a GET is sent
PollTick(k) ==
  /\ session[k].timer = "live"
  /\ session[k].attempts + 1 <= maxAttempts
  /\ session' = [session EXCEPT ![k].attempts = @ + 1,
                                ![k].issued = @ + 1,
                                ![k].inflight = @ + 1]
  /\ UNCHANGED << pollingSubscription, gapsVars, serverVars, pollVars >>

\* one firing of interval(2000) past the budget: cancelPolling(), the
\* timeout value, complete (the counter is not followed further)
TimeoutTick(k) ==
  /\ session[k].timer = "live"
  /\ session[k].attempts + 1 > maxAttempts
  /\ session' =
       LET cancelled == cancelPolling(session)
       IN [cancelled EXCEPT
             ![k] = complete(next([cancelled[k] EXCEPT
                                     !.attempts = maxAttempts + 1],
                                  "timeout"))]
  /\ pollingSubscription' = 0
  /\ UNCHANGED << gapsVars, serverVars, pollVars >>

\* what a GET answers: a status, or an HTTP failure
GetResponses == { "processing", "complete", "error", "failed" }

\* the next / error callback of one GET of call k
GetResponds(k, resp) ==
  /\ session[k].inflight > 0
  /\ IF resp = "processing"
     THEN /\ session' = [session EXCEPT
                ![k].inflight = @ - 1,
                ![k].answered = IF @ = "none" THEN "processing" ELSE @]
          /\ UNCHANGED pollingSubscription
     ELSE /\ session' =
               LET cancelled == cancelPolling(session)
                   value == IF resp = "complete" THEN "result" ELSE "error"
                   seen == IF resp = "failed" THEN "failed" ELSE "terminal"
               IN [cancelled EXCEPT
                     ![k] = complete(next([cancelled[k] EXCEPT
                                             !.inflight = @ - 1,
                                             !.answered = seen],
                                          value))]
          /\ pollingSubscription' = 0
  /\ UNCHANGED << gapsVars, serverVars, pollVars >>

\* MarketingComponent.ngOnDestroy: destroy$ fires, takeUntil(destroy$) ends
\* the component's subscriptions to the result observables
ngOnDestroy ==
  /\ \E k \in Calls : session[k].subscribed
  /\ session' = [k \in Calls |->
                   [session[k] EXCEPT
                      !.subscribed = FALSE,
                      !.abandoned = @ \/ (session[k].subscribed
                                            /\ session[k].timer = "live")]]
  /\ UNCHANGED << pollingSubscription, gapsVars, serverVars, pollVars >>

InitClient ==
  /\ pollingSubscription = 0
  /\ session = [k \in Calls |-> NotCalled]

NextPoller ==
  \/ \E k \in Calls : getSuggestions(k)
  \/ \E k \in Calls, resp \in PostResponses : PostResponds(k, resp)
  \/ \E k \in Calls : PollTick(k)
  \/ \E k \in Calls : TimeoutTick(k)
  \/ \E k \in Calls, resp \in GetResponses : GetResponds(k, resp)
  \/ ngOnDestroy

(***************************************************************************)
(* Inputs of the classification: rows as the fetchers build them.          *)
(***************************************************************************)
SearchTerm(t, c, s, v) ==
  [searchTerm |-> t, clicks |-> c, impressions |-> 10 * (c + 1), spend |-> s,
   conversions |-> v]

SearchTermPool ==
  { SearchTerm("hoa attorney help", 3, 500, 0),
    SearchTerm("HOA Lawyer Near Me ", 2, 300, 0),
    SearchTerm("diy hoa response letter", 5, 400, 1),
    SearchTerm("free hoa template", 0, 250, 0),
    SearchTerm("Hoa Fine Dispute", 1, 150, 0) }

Letters == "abcdefghijklmnopqrstuvwxyz"

\* the i-th generated wrong-intent record: distinct term, distinct spend
BulkWaste(i) ==
  SearchTerm("hoa lawsuit " \o SubSeq(Letters, i, i), 1, 300 + i, 0)

BulkRows(n) == [i \in 1..n |-> BulkWaste(i)]

\* the i-th generated opportunity record: distinct term, clicks ascending
BulkGap(i) ==
  SearchTerm("hoa fine notice " \o SubSeq(Letters, i, i), i, 100 + i, 0)

BulkGaps(n) == [i \in 1..n |-> BulkGap(i)]

HeadLists == UNION { [1..n -> SearchTermPool] : n \in 0..MaxHead }

ShortHeadLists == { h \in HeadLists : Len(h) <= 1 }

SearchTermInputs ==
  { Rows(h \o BulkRows(n)) : h \in HeadLists, n \in 0..MaxBulk }
    \cup { Rows(h \o BulkGaps(n)) : h \in ShortHeadLists, n \in 1..MaxGaps }
    \cup { ErrorMarker }

Keyword(k) == [keyword |-> k, matchType |-> "BROAD", status |-> "ENABLED"]

KeywordInputs ==
  { ErrorMarker,
    Rows(<< Keyword("HOA Fine Dispute "), Keyword("") >>) }

Negative(k) == [keyword |-> k, matchType |-> "BROAD"]

CampaignNegativeInputs ==
  { ErrorMarker,
    Rows(<< Negative("Attorney "), Negative("") >>),
    Rows(<< Negative("hoa lawsuit c") >>) }

SharedSetNegativeInputs ==
  { Rows(<< >>),
    Rows(<< Negative(" near me") >>),
    Rows(<< Negative("  ") >>) }

NotCombined == [existingNegatives |-> << >>, negativeKeywordsSet |-> {}]

InitGapsIdle ==
  /\ searchTermData = ErrorMarker
  /\ keywordData = ErrorMarker
  /\ campaignNegatives = ErrorMarker
  /\ sharedSetNegatives = ErrorMarker
  /\ negativeKeywords = NotCombined
  /\ searchTermsGaps = EmptyGaps
  /\ gapsPc = "idle"

InitGaps ==
  /\ searchTermData \in SearchTermInputs
  /\ keywordData \in KeywordInputs
  /\ campaignNegatives \in CampaignNegativeInputs
  /\ sharedSetNegatives \in SharedSetNegativeInputs
  /\ negativeKeywords = NotCombined
  /\ searchTermsGaps = EmptyGaps
  /\ gapsPc = "fetched"
  /\ InitServerIdle
  /\ InitClient

\* processAnalysis: combineNegativeKeywords(campaignNegatives, sharedSetNegatives)
CombineNegatives ==
  /\ gapsPc = "fetched"
  /\ negativeKeywords' = combineNegativeKeywords(campaignNegatives,
                                                 sharedSetNegatives)
  /\ gapsPc' = "combined"
  /\ UNCHANGED << searchTermData, keywordData, campaignNegatives,
                  sharedSetNegatives, searchTermsGaps >>
  /\ UNCHANGED << serverVars, clientVars, pollVars >>

\* processAnalysis: analyzeSearchTermsForGaps(searchTermData, keywordData, set)
\* a TypeError leaves the caller without a result
AnalyzeSearchTerms ==
  /\ gapsPc = "combined"
  /\ IF filterThrows(searchTermData)
     THEN /\ gapsPc' = "threw"
          /\ UNCHANGED searchTermsGaps
     ELSE /\ searchTermsGaps' =
               analyzeSearchTermsForGaps(searchTermData, keywordData,
                                         negativeKeywords.negativeKeywordsSet)
          /\ gapsPc' = "analyzed"
  /\ UNCHANGED << searchTermData, keywordData, campaignNegatives,
                  sharedSetNegatives, negativeKeywords >>
  /\ UNCHANGED << serverVars, clientVars, pollVars >>

NextGaps == CombineNegatives \/ AnalyzeSearchTerms

SpecGaps == InitGaps /\ [][NextGaps]_vars

\* the classification of inputs without data: absent, not arrays, markers,
\* empty lists
NoDataInputs == { Absent, NotArray, ErrorMarker, Rows(<< >>) }

InitNoData ==
  /\ searchTermData \in NoDataInputs
  /\ keywordData \in NoDataInputs \cup KeywordInputs
  /\ campaignNegatives \in NoDataInputs \cup CampaignNegativeInputs
  /\ sharedSetNegatives \in NoDataInputs \cup SharedSetNegativeInputs
  /\ negativeKeywords = NotCombined
  /\ searchTermsGaps = EmptyGaps
  /\ gapsPc = "fetched"
  /\ InitServerIdle
  /\ InitClient

SpecNoData == InitNoData /\ [][NextGaps]_vars

\* the job subsystem of one server process
Init == InitServer /\ InitGapsIdle /\ InitClient

Next == NextServer

Spec == Init /\ [][Next]_vars

\* every awaited call of a request that has arrived settles, and the
\* continuation after it runs; nothing obliges a client to submit
FairRunner ==
  \A s \in Submissions :
    /\ WF_vars(\E o \in UpsertOutcomes : UpsertReturns(s, o))
    /\ WF_vars(RunnerStarted(s) \/ SubmitFailed(s))
    /\ WF_vars(\/ \E f \in FetchOutcomes : FetchesReturn(s, f)
               \/ \E c \in ClientOutcomes : FetchRejects(s, c))
    /\ WF_vars(\E o \in LlmOutcomes, c \in ClientOutcomes : LlmReturns(s, o, c))
    /\ WF_vars(RunnerReturns(s) \/ DetachedRejected(s))
    /\ WF_vars(\E c \in ClientOutcomes :
                 RunnerCatches(s, c) \/ DetachedCatch(s, c))

SpecFair == Spec /\ FairRunner

\* the job subsystem with the GET requests of its pollers
NextPolls == NextServer \/ NextGet

SpecPolls == Init /\ [][NextPolls]_vars

\* the poller against a server that answers each request in any way
InitPoller == InitClient /\ InitServerIdle /\ InitGapsIdle

SpecPoller == InitPoller /\ [][NextPoller]_vars

\* every HTTP request is eventually answered and every live interval timer
\* keeps firing; nothing obliges the user to call getSuggestions again or to
\* leave the page
FairPoller ==
  \A k \in Calls :
    /\ WF_vars(\E resp \in PostResponses : PostResponds(k, resp))
    /\ WF_vars(PollTick(k) \/ TimeoutTick(k))
    /\ WF_vars(\E resp \in GetResponses : GetResponds(k, resp))

SpecPollerFair == SpecPoller /\ FairPoller

(***************************************************************************)
(* Properties of the classification engine (checked under SpecGaps).       *)
(***************************************************************************)
Analyzed == gapsPc = "analyzed"

InputRows == IF isUsableArray(searchTermData) THEN searchTermData.rows ELSE << >>

OpportunityTerms ==
  { searchTermsGaps.opportunities[i].searchTerm :
      i \in 1..Len(searchTermsGaps.opportunities) }

WasteTermStrings ==
  { searchTermsGaps.wasteTerms[i].searchTerm :
      i \in 1..Len(searchTermsGaps.wasteTerms) }

CoveredTermStrings ==
  { searchTermsGaps.alreadyCovered[i].keyword :
      i \in 1..Len(searchTermsGaps.alreadyCovered) }

\* wrong-intent, written out over the vocabulary
ContainsWrongIntentWord(term) ==
  \E i \in 1..Len(WRONG_INTENT_WORDS) :
    includes(toLowerCase(term), WRONG_INTENT_WORDS[i])

\* some negative keyword equals the normalized term or is a substring of it
CoveredByNegativeSet(term) ==
  \E negative \in negativeKeywords.negativeKeywordsSet :
    \/ trim(toLowerCase(term)) = negative
    \/ includes(trim(toLowerCase(term)), negative)

\* C8 as stated: every wrong-intent record with conversions == 0 and
\* spend > 2.00 is in exactly one of wasteTerms and alreadyCovered, whatever
\* its click count and however many such records there are.
C8_NeverDropped ==
  Analyzed =>
    \A i \in 1..Len(InputRows) :
      LET st == InputRows[i] IN
        (ContainsWrongIntentWord(st.searchTerm) /\ st.conversions = 0
           /\ st.spend > WasteSpendFloor)
        => ((st.searchTerm \in WasteTermStrings)
              # (st.searchTerm \in CoveredTermStrings))

\* C8 amended: every wrong-intent record with clicks >= 1, conversions == 0
\* and spend > 2.00 is never in both lists; if it is negated it is in
\* alreadyCovered; if it is in neither list it is not negated and wasteTerms
\* holds 15 entries, each with spend at least the record's spend.
C8_CandidatesKeptUpToLimit ==
  Analyzed =>
    \A i \in 1..Len(InputRows) :
      LET st == InputRows[i] IN
        (st.clicks >= 1 /\ ContainsWrongIntentWord(st.searchTerm)
           /\ st.conversions = 0 /\ st.spend > WasteSpendFloor)
        => /\ ~(st.searchTerm \in WasteTermStrings
                  /\ st.searchTerm \in CoveredTermStrings)
           /\ CoveredByNegativeSet(st.searchTerm)
                => st.searchTerm \in CoveredTermStrings
           /\ (st.searchTerm \notin WasteTermStrings
                 /\ st.searchTerm \notin CoveredTermStrings)
                => /\ ~CoveredByNegativeSet(st.searchTerm)
                   /\ Len(searchTermsGaps.wasteTerms) = WasteLimit
                   /\ \A j \in 1..Len(searchTermsGaps.wasteTerms) :
                        searchTermsGaps.wasteTerms[j].spend >= st.spend

\* a candidate was cut by the limit while another one sits in alreadyCovered
C8_Witness ==
  /\ Analyzed
  /\ Len(searchTermsGaps.alreadyCovered) > 0
  /\ \E i \in 1..Len(InputRows) :
       /\ InputRows[i].clicks >= 1
       /\ InputRows[i].conversions = 0
       /\ InputRows[i].spend > WasteSpendFloor
       /\ ContainsWrongIntentWord(InputRows[i].searchTerm)
       /\ InputRows[i].searchTerm \notin WasteTermStrings
       /\ InputRows[i].searchTerm \notin CoveredTermStrings

\* C9: no term string is in more than one of opportunities, wasteTerms and
\* alreadyCovered.
C9_ListsDisjointByTerm ==
  Analyzed =>
    /\ OpportunityTerms \cap WasteTermStrings = {}
    /\ OpportunityTerms \cap CoveredTermStrings = {}
    /\ WasteTermStrings \cap CoveredTermStrings = {}

\* all three lists are populated, from an input that repeats a term
C9_Witness ==
  /\ Analyzed
  /\ OpportunityTerms # {}
  /\ WasteTermStrings # {}
  /\ CoveredTermStrings # {}
  /\ \E i, j \in 1..Len(InputRows) :
       i # j /\ InputRows[i].searchTerm = InputRows[j].searchTerm

\* C10: a waste candidate whose normalized term equals or contains a member
\* of the negative match set is in alreadyCovered and not in wasteTerms.
C10_NegatedGoesToCovered ==
  Analyzed =>
    \A i \in 1..Len(InputRows) :
      LET st == InputRows[i] IN
        (st.clicks >= 1 /\ st.conversions = 0 /\ st.spend > WasteSpendFloor
           /\ ContainsWrongIntentWord(st.searchTerm)
           /\ CoveredByNegativeSet(st.searchTerm))
        => /\ st.searchTerm \in CoveredTermStrings
           /\ st.searchTerm \notin WasteTermStrings

\* negatives {"attorney"}, term "hoa attorney help", clicks 3, spend 5.00
C10_Witness ==
  /\ Analyzed
  /\ negativeKeywords.negativeKeywordsSet = { "attorney" }
  /\ \E i \in 1..Len(InputRows) :
       InputRows[i] = SearchTerm("hoa attorney help", 3, 500, 0)
  /\ "hoa attorney help" \in CoveredTermStrings
  /\ "hoa attorney help" \notin WasteTermStrings

(***************************************************************************)
(* Properties of the job store and the runner (checked under Spec).        *)
(***************************************************************************)
Terminal(job) == job.status \in { "complete", "error" }

\* the POST of submission s has been answered 202 { status: 'processing' }
Accepted(s) == run[s].response = "processing"

DurableWriteFailed(r) == r.tier \in { "noClient", "upsertError", "upsertThrew" }

\* C1: once the in-process record of a job is 'complete' or 'error', no
\* later saveJob call of that job's own handler, runner or detached .catch
\* changes its status, result or error.
C1_TerminalImmutable ==
  [][\A id \in JobIds :
       (Terminal(jobStore[id]) /\ lastSaveCall'[id] = lastSaveCall[id])
       => jobStore'[id] = jobStore[id]]_vars

\* C6: when a saveJob call is over and its durable write failed (no client,
\* upsert error result, upsert exception), loadJob in the same process
\* returns the data of that call, as long as no later saveJob wrote the id.
C6_FailedDurableWriteVisible ==
  \A s \in Submissions :
    (run[s].pc = "resolved" /\ DurableWriteFailed(run[s])
       /\ lastSaveCall[run[s].jobId] = s)
    => loadJob(run[s].jobId) = run[s].data

\* a 'complete' record whose upsert threw, the durable row still behind
C6_Witness ==
  \E s \in Submissions :
    /\ run[s].pc = "resolved"
    /\ run[s].tier = "upsertThrew"
    /\ run[s].data.status = "complete"
    /\ durable[run[s].jobId] # run[s].data
    /\ loadJob(run[s].jobId) = run[s].data

\* C7: no saveJob call rejects to its caller, whatever the durable tier does.
C7_SaveJobNeverRejects ==
  \A s \in Submissions : run[s].pc # "rejected"

\* C15: whatever the fetches of a run return, processAnalysis goes on to the
\* LLM call with the results it has, and when the LLM output parses the
\* record it writes is 'complete'.
C15_FetchFailuresDoNotAbort ==
  [][\A s \in Submissions :
       /\ (run[s].pc = "fetch" /\ run'[s].pc # "fetch")
          => /\ run'[s].pc = "llm"
             /\ jobStore'[run[s].jobId] = jobStore[run[s].jobId]
       /\ (run[s].pc = "llm" /\ run'[s].site = "complete")
          => jobStore'[run[s].jobId].status = "complete"]_vars

\* C16: a run of processAnalysis calls the LLM at most once and never again
\* after the call has settled; when the call fails or its text does not
\* parse, that step takes the record the job last wrote from 'processing' to
\* 'error' with an error message, and it starts no other submission.
C16_OneLlmCallThenError ==
  [][\A s \in Submissions :
       /\ run'[s].llmCalls <= 1
       /\ (run[s].llmCalls = 1 /\ run[s].pc # "llm") => run'[s].pc # "llm"
       /\ (run[s].pc = "llm" /\ run'[s].site \in { "parseError", "catch" })
          => /\ lastSaveCall[run[s].jobId] = s
                  => jobStore[run[s].jobId].status = "processing"
             /\ jobStore'[run[s].jobId].status = "error"
             /\ jobStore'[run[s].jobId].error
                  \in { ParseErrorMessage, LlmErrorMessage }
             /\ \A t \in Submissions \ { s } : run'[t] = run[t]]_vars

\* one job ended by an unparseable text and one by a failed call, each
\* after one LLM call
C16_Witness ==
  \E s, t \in Submissions :
    /\ run[s].pc = "done" /\ run[s].llmCalls = 1
    /\ jobStore[run[s].jobId] = ErrorData(ParseErrorMessage)
    /\ run[t].pc = "done" /\ run[t].llmCalls = 1
    /\ jobStore[run[t].jobId] = ErrorData(LlmErrorMessage)

\* C18: after its creation at 'processing' the record of a job is written
\* by at most one saveJob call, counted over the parse-failure path, the
\* success path, the outer catch and the detached .catch, and that call
\* writes a terminal status; once the runner has returned it is exactly one.
C18_OnePostCreationWrite ==
  \A s \in Submissions :
    /\ run[s].writes <= 1
    /\ (run[s].writes = 1 /\ lastSaveCall[run[s].jobId] = s)
       => Terminal(jobStore[run[s].jobId])
    /\ (run[s].pc = "done" /\ Accepted(s)) => run[s].writes = 1

\* C20: no two submissions are assigned the same job id, so the initial
\* 'processing' write of a submission never replaces a record of the map.
C20_JobIdsUnique ==
  \A s, t \in Submissions :
    (s # t /\ run[s].jobId # 0 /\ run[t].jobId # 0)
    => run[s].jobId # run[t].jobId

(***************************************************************************)
(* Properties of the submit and poll handlers (checked under SpecPolls).   *)
(***************************************************************************)
\* C12: when a POST is answered { status: 'processing', jobId } the record
\* of jobId is in the map and the runner of that POST has only been started
\* (it has written nothing); and a GET for a returned jobId that arrives at
\* the same process is answered from the record, never as a missing job.
C12_AcceptedBeforeRunnerEnds ==
  [][/\ \A s \in Submissions :
          (~Accepted(s) /\ run'[s].response = "processing")
          => /\ run'[s].pc = "fetch"
             /\ jobStore'[run'[s].jobId] # NoJob
     /\ (/\ get.pc = "idle"
         /\ get'.pc # "idle"
         /\ get'.process = "creator"
         /\ \E s \in Submissions :
              Accepted(s) /\ run[s].jobId = get'.jobId)
        => /\ get'.pc = "answered"
           /\ get'.response.message # InitializingMessage]_vars

\* a GET in the creating process answered 'processing' from the record while
\* the runner is still running and the durable table has no row for the id
C12_Witness ==
  /\ get.pc = "answered"
  /\ get.process = "creator"
  /\ get.response.status = "processing"
  /\ get.response.message = "none"
  /\ durable[get.jobId] = NoJob
  /\ \E s \in Submissions :
       /\ Accepted(s)
       /\ run[s].jobId = get.jobId
       /\ run[s].pc \in { "fetch", "llm" }

\* C14: while the LLM API key or the ad-metrics credentials are missing,
\* every POST is answered with an immediate error, no record is created in
\* the map or in the durable table, and no runner is started.
C14_MissingConfigurationRefused ==
  (~anthropicConfigured \/ ~hasGoogleAdsCredentials)
  => /\ \A id \in JobIds : jobStore[id] = NoJob /\ durable[id] = NoJob
     /\ \A s \in Submissions :
          /\ run[s].pc \in { "idle", "done" }
          /\ run[s].response \in { "none", "notConfigured", "badRequest" }

\* C14 amended: while the LLM API key is missing every POST is answered with
\* the immediate 'not configured' error, no record is created in either
\* tier and no runner is started; missing ad-metrics credentials are not
\* tested at submission: the runner of such a job passes the Google Ads
\* inputs downstream as 'not configured' error markers.
C14_MissingApiKeyRefused ==
  /\ ~anthropicConfigured
     => /\ \A id \in JobIds : jobStore[id] = NoJob /\ durable[id] = NoJob
        /\ \A s \in Submissions :
             /\ run[s].pc \in { "idle", "done" }
             /\ run[s].response \in { "none", "notConfigured" }
  /\ ~hasGoogleAdsCredentials
     => \A s \in Submissions : run[s].inputs \in { "none", "unavailable" }

\* no API key, no ad-metrics credentials: every POST has been refused
C14_Witness ==
  /\ ~anthropicConfigured
  /\ ~hasGoogleAdsCredentials
  /\ \A s \in Submissions :
       run[s].pc = "done" /\ run[s].response = "notConfigured"

\* C17: no error string stored on a job, in the map or in the durable table,
\* or returned to a poller contains the raw error body of the LLM API.
C17_NoRawErrorBodySurfaced ==
  /\ \A id \in JobIds :
       /\ ~includes(jobStore[id].error, RawErrorBody)
       /\ ~includes(durable[id].error, RawErrorBody)
  /\ ~includes(get.response.error, RawErrorBody)

\* the GET in hand gets its answer, or its handler rejects, in this step
GetSettles ==
  /\ get.pc \in { "idle", "select" }
  /\ get'.pc \in { "answered", "rejected" }

\* the record of the id in the tiers the handling process can read
StoredFor(process, id) ==
  IF jobStoreOf(process)[id] # NoJob THEN jobStoreOf(process)[id]
  ELSE durable[id]

\* C13: a GET for a jobId that is in neither the map nor the durable table
\* is answered with status 'processing'; a GET for a jobId that is in one of
\* them is answered with the stored status and the stored result (for
\* 'complete') or error (for 'error').
C13_PollAnswersFromRecord ==
  [][GetSettles =>
       LET stored == StoredFor(get'.process, get'.jobId)
       IN /\ get'.pc = "answered"
          /\ stored = NoJob => get'.response.status = "processing"
          /\ stored # NoJob
               => /\ get'.response.status = stored.status
                  /\ get'.response.result = stored.result
                  /\ get'.response.error = stored.error]_vars

\* C19: loadJob reads the durable table only for an id that is absent from
\* the map of its process, and a GET handled by a process whose map is
\* empty is answered with the status, result and error of the row last
\* upserted for the id.
C19_OtherProcessReadsDurableRow ==
  [][/\ (get.pc = "idle" /\ get'.pc = "select")
        => jobStoreOf(get'.process)[get'.jobId] = NoJob
     /\ (GetSettles /\ get'.process = "other" /\ durable[get'.jobId] # NoJob)
        => /\ get'.pc = "answered"
           /\ get'.response.status = durable[get'.jobId].status
           /\ get'.response.result = durable[get'.jobId].result
           /\ get'.response.error = durable[get'.jobId].error]_vars

(***************************************************************************)
(* Properties of the client poller (checked under SpecPoller).             *)
(***************************************************************************)
\* C2: once getSuggestions is called for a new job while call a's interval
\* timer is active, no further GET is issued for call a and no value is
\* emitted on call a's result observable.
C2_SupersededPollIsSilent ==
  [][\A a \in Calls :
       session[a].superseded
       => /\ session'[a].issued = session[a].issued
          /\ session'[a].emitted = session[a].emitted]_vars

\* C3: once a poll response with status 'complete' or 'error' has been
\* received for a call, exactly one value has been emitted on its result
\* observable, the observable is completed and its interval timer is
\* cancelled.
C3_TerminalResponseEndsSession ==
  \A k \in Calls :
    session[k].answered = "terminal"
    => /\ session[k].emitted = 1
       /\ session[k].subject = "stopped"
       /\ session[k].timer # "live"

\* C4: a call whose every poll response is 'processing' issues at most
\* maxAttempts GETs, and once its tick past the budget has fired it has
\* emitted exactly one value, the timeout, its observable is completed and
\* its interval timer is cancelled.
C4_TimeoutAfterBudget ==
  \A k \in Calls :
    session[k].answered \in { "none", "processing" }
    => /\ session[k].issued <= maxAttempts
       /\ session[k].attempts > maxAttempts
            => /\ session[k].emitted = 1
               /\ session[k].lastValue = "timeout"
               /\ session[k].subject = "stopped"
               /\ session[k].timer # "live"

\* C5: once the component is destroyed while a call's poll is active, no
\* further GET is issued and no further value is emitted for that call.
C5_DestroyStopsPolling ==
  [][\A k \in Calls :
       session[k].abandoned
       => /\ session'[k].issued = session[k].issued
          /\ session'[k].emitted = session[k].emitted]_vars

(*****************************************************************************)
(* Further properties of the client poller (checked under SpecPoller).      *)
(*****************************************************************************)
\* C21: at most one interval timer is live at any time, also when a second
\* getSuggestions call is made before the first call's POST is answered, and
\* every live timer is the one pollingSubscription references.
C21_OneLiveTimer ==
  \A j, k \in Calls :
    /\ (session[j].timer = "live" /\ session[k].timer = "live") => j = k
    /\ session[k].timer = "live" => pollingSubscription = k

(*****************************************************************************)
(* Further properties of the classification engine (SpecGaps, SpecNoData).  *)
(*****************************************************************************)
\* the normalized keywords of the account, empty keywords left out
KeywordStrings ==
  IF isUsableArray(keywordData)
  THEN { trim(toLowerCase(keywordData.rows[i].keyword)) :
           i \in 1..Len(keywordData.rows) } \ { "" }
  ELSE {}

\* an input record that may be listed as an opportunity
Eligible(st) ==
  /\ st.clicks >= 1
  /\ ~ContainsWrongIntentWord(st.searchTerm)
  /\ trim(toLowerCase(st.searchTerm)) \notin KeywordStrings

\* the record has no entry in the opportunities list
LeftOut(st) ==
  \A j \in 1..Len(searchTermsGaps.opportunities) :
    searchTermsGaps.opportunities[j].searchTerm # st.searchTerm

WasteCandidate(st) ==
  /\ st.clicks >= 1
  /\ st.conversions = 0
  /\ st.spend > WasteSpendFloor
  /\ ContainsWrongIntentWord(st.searchTerm)

\* C23: wasteTerms holds only waste candidates that are not negated, at most
\* 15 of them in descending order of spend, and a candidate that is not
\* negated is left out only of a full list whose entries all have at least
\* its spend; alreadyCovered has one entry per negated candidate record,
\* with the record's spend as wastedSpend.
C23_WasteTopBySpendCoveredInFull ==
  Analyzed =>
    LET wasteTerms == searchTermsGaps.wasteTerms
        alreadyCovered == searchTermsGaps.alreadyCovered
    IN
      /\ Len(wasteTerms) <= 15
      /\ \A i \in 1..Len(wasteTerms) :
           /\ \E k \in 1..Len(InputRows) :
                /\ InputRows[k].searchTerm = wasteTerms[i].searchTerm
                /\ InputRows[k].spend = wasteTerms[i].spend
                /\ WasteCandidate(InputRows[k])
           /\ ~CoveredByNegativeSet(wasteTerms[i].searchTerm)
           /\ \A j \in 1..Len(wasteTerms) :
                i < j => wasteTerms[i].spend >= wasteTerms[j].spend
      /\ \A k \in 1..Len(InputRows) :
           (/\ WasteCandidate(InputRows[k])
            /\ ~CoveredByNegativeSet(InputRows[k].searchTerm)
            /\ InputRows[k].searchTerm \notin WasteTermStrings)
           => /\ Len(wasteTerms) = 15
              /\ \A j \in 1..Len(wasteTerms) :
                   wasteTerms[j].spend >= InputRows[k].spend
      /\ Len(alreadyCovered) =
           Cardinality({ k \in 1..Len(InputRows) :
                           /\ WasteCandidate(InputRows[k])
                           /\ CoveredByNegativeSet(InputRows[k].searchTerm) })
      /\ \A j \in 1..Len(alreadyCovered) :
           \E k \in 1..Len(InputRows) :
             /\ WasteCandidate(InputRows[k])
             /\ CoveredByNegativeSet(InputRows[k].searchTerm)
             /\ alreadyCovered[j].keyword = InputRows[k].searchTerm
             /\ alreadyCovered[j].wastedSpend = InputRows[k].spend

\* 15 waste terms listed, a candidate that is not negated cut by the limit,
\* and a negated candidate listed in alreadyCovered with its spend
C23_Witness ==
  /\ Analyzed
  /\ Len(searchTermsGaps.wasteTerms) = WasteLimit
  /\ \E k \in 1..Len(InputRows) :
       /\ WasteCandidate(InputRows[k])
       /\ ~CoveredByNegativeSet(InputRows[k].searchTerm)
       /\ InputRows[k].searchTerm \notin WasteTermStrings
       /\ InputRows[k].spend <= searchTermsGaps.wasteTerms[WasteLimit].spend
  /\ \E k \in 1..Len(InputRows), j \in 1..Len(searchTermsGaps.alreadyCovered) :
       /\ searchTermsGaps.alreadyCovered[j].keyword = InputRows[k].searchTerm
       /\ searchTermsGaps.alreadyCovered[j].wastedSpend = InputRows[k].spend

\* the spend of the first n waste terms of the result, in cents
RECURSIVE SpendOfWasteTerms(_)
SpendOfWasteTerms(n) ==
  IF n = 0 THEN 0
  ELSE searchTermsGaps.wasteTerms[n].spend + SpendOfWasteTerms(n - 1)

\* C24: totalWastedOnWrongIntent is the sum of spend over the returned
\* wasteTerms alone, in cents, and confirmedGaps, confirmedWaste,
\* alreadyNegated and totalSearchTerms are the lengths of opportunities,
\* wasteTerms, alreadyCovered and the input list.
C24_AnalysisCountsReturnedLists ==
  Analyzed =>
    LET analysis == searchTermsGaps.analysis IN
      /\ analysis.totalWastedOnWrongIntent =
           SpendOfWasteTerms(Len(searchTermsGaps.wasteTerms))
      /\ analysis.confirmedGaps = Len(searchTermsGaps.opportunities)
      /\ analysis.confirmedWaste = Len(searchTermsGaps.wasteTerms)
      /\ analysis.alreadyNegated = Len(searchTermsGaps.alreadyCovered)
      /\ analysis.totalSearchTerms = Len(InputRows)

\* all three lists are populated, several waste terms are summed, and the
\* lists are shorter than the input
C24_Witness ==
  /\ Analyzed
  /\ Len(searchTermsGaps.opportunities) > 0
  /\ Len(searchTermsGaps.wasteTerms) > 1
  /\ Len(searchTermsGaps.alreadyCovered) > 0
  /\ searchTermsGaps.analysis.totalWastedOnWrongIntent > 0
  /\ searchTermsGaps.analysis.totalSearchTerms >
       Len(searchTermsGaps.opportunities) + Len(searchTermsGaps.wasteTerms)
         + Len(searchTermsGaps.alreadyCovered)

\* C25: when searchTermData is absent, an empty list, not an array or a
\* failure marker, analyzeSearchTermsForGaps returns, whatever keywordData and
\* the negatives are, and its result has empty opportunities, wasteTerms and
\* alreadyCovered and five zero counters.
C25_NoDataGivesEmptyResult ==
  /\ gapsPc # "threw"
  /\ (Analyzed /\ (searchTermData.kind # "array"
                     \/ Len(searchTermData.rows) = 0))
     => /\ searchTermsGaps.opportunities = << >>
        /\ searchTermsGaps.wasteTerms = << >>
        /\ searchTermsGaps.alreadyCovered = << >>
        /\ searchTermsGaps.analysis.totalSearchTerms = 0
        /\ searchTermsGaps.analysis.confirmedGaps = 0
        /\ searchTermsGaps.analysis.confirmedWaste = 0
        /\ searchTermsGaps.analysis.totalWastedOnWrongIntent = 0
        /\ searchTermsGaps.analysis.alreadyNegated = 0

\* a failure marker as searchTermData was analyzed next to keywords and a
\* non-empty negative set
C25_Witness ==
  /\ Analyzed
  /\ searchTermData = ErrorMarker
  /\ isUsableArray(keywordData)
  /\ negativeKeywords.negativeKeywordsSet # {}

\* the records of a negative-keyword source that have a keyword, in order
Surviving(d) ==
  IF d.kind = "array"
  THEN SelectSeq(d.rows, LAMBDA neg : neg.keyword # "")
  ELSE << >>

\* C26: combineNegativeKeywords drops the records without a keyword; the
\* detailed list has one entry per surviving record, campaign records first,
\* with the keyword as given and scope 'campaign' or 'account'; the match set
\* is the set of the lower-cased trimmed keywords of the surviving records;
\* inputs that are empty or failure markers give an empty list and set.
C26_NegativesNormalized ==
  gapsPc # "fetched" =>
    LET camp == Surviving(campaignNegatives)
        acct == Surviving(sharedSetNegatives)
        existingNegatives == negativeKeywords.existingNegatives
    IN
      /\ Len(existingNegatives) = Len(camp) + Len(acct)
      /\ \A i \in 1..Len(camp) :
           /\ existingNegatives[i].keyword = camp[i].keyword
           /\ existingNegatives[i].scope = "campaign"
      /\ \A i \in 1..Len(acct) :
           /\ existingNegatives[Len(camp) + i].keyword = acct[i].keyword
           /\ existingNegatives[Len(camp) + i].scope = "account"
      /\ negativeKeywords.negativeKeywordsSet =
           { trim(toLowerCase(camp[i].keyword)) : i \in 1..Len(camp) }
             \cup { trim(toLowerCase(acct[i].keyword)) : i \in 1..Len(acct) }
      /\ (/\ campaignNegatives \in { ErrorMarker, Rows(<< >>) }
          /\ sharedSetNegatives \in { ErrorMarker, Rows(<< >>) })
         => /\ existingNegatives = << >>
            /\ negativeKeywords.negativeKeywordsSet = {}

\* a campaign record without a keyword was dropped, and a campaign and an
\* account keyword were kept as given and normalized for the set
C26_Witness ==
  /\ gapsPc = "combined"
  /\ campaignNegatives = Rows(<< Negative("Attorney "), Negative("") >>)
  /\ sharedSetNegatives = Rows(<< Negative(" near me") >>)
  /\ Len(negativeKeywords.existingNegatives) = 2
  /\ negativeKeywords.existingNegatives[1].keyword = "Attorney "
  /\ negativeKeywords.negativeKeywordsSet = { "attorney", "near me" }

(*****************************************************************************)
(* Liveness of the client poller (checked under SpecPollerFair).            *)
(*****************************************************************************)
\* the observable of call k has emitted one value and is completed
Settled(k) == session[k].emitted = 1 /\ session[k].subject = "stopped"

\* a getSuggestions call was made after call k
Superseded(k) == \E j \in Calls : j > k /\ session[j].post # "none"

\* C27: under fair delivery of responses and ticks, the observable of every
\* getSuggestions call that no later call supersedes eventually emits one
\* value and completes, also when the call is made while an earlier call's
\* POST or GET is outstanding.
C27_UnsupersededCallSettles ==
  \A k \in Calls :
    (session[k].post # "none") ~> (Settled(k) \/ Superseded(k))

\* C28: a cancelPolling call made by a GET callback or a timeout tick of one
\* poll session unsubscribes only that session's interval timer: a timer that
\* stops being live in a step other than a new getSuggestions call belongs to
\* the session whose GET was answered or whose tick fired in that step.
C28_CancelHitsOwnTimer ==
  [][\A j \in Calls :
       (session[j].timer = "live" /\ session'[j].timer = "unsubscribed")
       => \/ \E c \in Calls :
               session[c].post = "none" /\ session'[c].post # "none"
          \/ session'[j].inflight < session[j].inflight
          \/ session'[j].attempts > session[j].attempts]_vars

(*****************************************************************************)
(* The negative match set (checked under SpecGaps).                         *)
(*****************************************************************************)
\* C29: the negative match set never contains the empty string, whatever the
\* input records are, and a term is listed in alreadyCovered only when a
\* non-empty negative keyword equals it or is contained in it.
C29_NoEmptyNegative ==
  /\ gapsPc # "fetched" => "" \notin negativeKeywords.negativeKeywordsSet
  /\ Analyzed =>
       \A term \in CoveredTermStrings :
         \E negative \in negativeKeywords.negativeKeywordsSet \ { "" } :
           includes(trim(toLowerCase(term)), negative)

(*****************************************************************************)
(* Liveness of the job runner (checked under SpecFair).                     *)
(*****************************************************************************)
\* C30: every job a submission has created is eventually 'complete' or
\* 'error' in the in-process tier of the creating process (unless another
\* submission has written the same id since), provided every awaited call
\* settles.
C30_CreatedJobTerminates ==
  \A s \in Submissions :
    (run[s].jobId # 0)
      ~> (/\ run[s].jobId # 0
          /\ \/ Terminal(jobStore[run[s].jobId])
             \/ lastSaveCall[run[s].jobId] # s)

====
